---- MODULE Spec2Model ----
(***************************************************************************)
(* BeachBook: the browser front ends of the knowledge-graph question       *)
(* answering system.                                                       *)
(*                                                                         *)
(*   - the chat page (src/unnamed/part_006): submitQuery, the citation     *)
(*     substitution, displayQueries, updateAuditTrail;                     *)
(*   - the React application (src/unnamed/part_003,                        *)
(*     src/static/js/components/ForceGraph.jsx): QueryPanel.               *)
(*                                                                         *)
(* Text that the code searches, trims or rewrites is a sequence of         *)
(* one-character strings; text the code only copies is a TLA+ string.      *)
(* The /query server is not part of the sources: its reply is an input     *)
(* chosen when the response arrives.                                       *)
(*                                                                         *)
(*   Spec          the chat page, several queries in flight, a few replies *)
(*   SpecCitation  the chat page, one query, every reply within the bounds *)
(*   SpecApp       the QueryPanel of the React application                 *)
(*   SpecClock     the chat page, several queries in flight, with a clock  *)
(*   SpecSteps     the chat page, its response handlers step by step       *)
(*   SpecUpload    the upload form of the chat page and DocumentUpload     *)
(*   SpecPipeline  the query resolution pipeline of one query              *)
(*   SpecParser    the Semantic Parser over several questions              *)
(*   SpecJournal   the audio recorder of the journal page                  *)
(*   SpecGraph     App: the graph fetches after mounting and after uploads *)
(***************************************************************************)
EXTENDS Integers, Sequences, FiniteSets, TLC

\* ------------------------------------------------------------------ bounds

\* Queries submitted on the chat page in one run.
MaxQueries == 2
\* Length of the answer drafted by the server, in characters.
MaxDraftLen == 2
\* Lines of graph context in one reply.
MaxLines == 2
\* Submissions of the React QueryPanel in one run.
MaxPanelQueries == 2
DayLength == 2
MaxTime == 2
MaxUploads == 2
MaxParses == 3
MaxAppUploads == 1

\* Uploads with DocumentUpload in one run that follows the graph.
MaxGraphUploads == 2

\* Calls of startRecording in one run of the journal page.
MaxStarts == 3

\* Clicks on Save Recording in one run.
MaxSaves == 2

\* Seconds of recording time shown before the run stops counting.
MaxSeconds == 2

\* ------------------------------------------------------------------- text

\* Characters of drafted prose and of document titles.
Alphabet == {"a", "b", "1"}

\* Document titles found in the graph context; one is a prefix of another and
\* one is a digit, as a citation marker contains.
Titles == {<<"a">>, <<"b">>, <<"a", "b">>, <<"1">>}

\* The decimal digit of a marker index, `${index + 1}`.
Digits == <<"1", "2", "3", "4", "5", "6", "7", "8", "9">>

RECURSIVE SeqsUpTo(_, _)
SeqsUpTo(S, n) ==
    IF n = 0 THEN {<<>>}
    ELSE LET shorter == SeqsUpTo(S, n - 1)
         IN  shorter \cup {Append(s, x) : s \in {t \in shorter : Len(t) = n - 1}, x \in S}

Range(s) == {s[i] : i \in DOMAIN s}

\* String.prototype.trim over the characters the page can be given.
RECURSIVE TrimLeft(_)
TrimLeft(s) ==
    IF s # <<>> /\ Head(s) = " " THEN TrimLeft(Tail(s)) ELSE s

RECURSIVE TrimRight(_)
TrimRight(s) ==
    IF s # <<>> /\ s[Len(s)] = " " THEN TrimRight(SubSeq(s, 1, Len(s) - 1)) ELSE s

Trim(s) == TrimRight(TrimLeft(s))

\* pat occurs in s at position i.
MatchesAt(s, pat, i) ==
    /\ i + Len(pat) - 1 <= Len(s)
    /\ \A j \in 1..Len(pat) : s[i + j - 1] = pat[j]

\* processedResponse.replace(new RegExp(escaped(doc), 'g'), rep): the matches
\* are found left to right, never overlapping, and the replacement is not
\* searched again.
RECURSIVE ReplaceFrom(_, _, _, _)
ReplaceFrom(s, pat, rep, i) ==
    IF i > Len(s) THEN <<>>
    ELSE IF MatchesAt(s, pat, i)
         THEN rep \o ReplaceFrom(s, pat, rep, i + Len(pat))
         ELSE <<s[i]>> \o ReplaceFrom(s, pat, rep, i + 1)

ReplaceAll(s, pat, rep) == ReplaceFrom(s, pat, rep, 1)

\* Marker with the index one too far, `[${index + 2}]`.
Marker_OffByOne(k) == <<"[", Digits[k + 1], "]">>

\* `[${index + 1}]`
Marker(k) == <<"[", Digits[k], "]">>

\* ------------------------------------------------------ replies of /query

\* A line of technical_details.queries.graph_context:
\*   "found"   a line holding 'Found in: <title>' (read by submitQuery),
\*   "listed"  a line holding '- <title>' with a .txt title (read by the
\*             regular expression of updateAuditTrail),
\*   "text"    any other line.
TextLine == [type |-> "text", title |-> <<>>]
Found(t) == [type |-> "found", title |-> t]
Listed(t) == [type |-> "listed", title |-> t]

\* The text after 'Found in:' as the server writes it: a title, or a title
\* after a blank.
RawTitles == Titles \cup {<<" ", "a">>}

Lines == {TextLine} \cup {Found(t) : t \in RawTitles} \cup {Listed(<<"a">>)}

NoSemantic == [present |-> FALSE, main_noun |-> "", root_verb |-> ""]
Focus == [present |-> TRUE, main_noun |-> "defense", root_verb |-> "run"]
SemanticData == {NoSemantic, Focus}

\* The fixed answer of the synthesizer for an empty context.
InsufficientInformation == <<"n", "o", " ", "i", "n", "f", "o">>

\* The server's Answer Synthesizer, seen from the page: the text of
\* data.response for the context it reports.
synthesize(context, draft) ==
    IF context = <<>> THEN InsufficientInformation ELSE draft

OkReply(draft, context, sd) ==
    [kind |-> "ok", response |-> synthesize(context, draft),
     graph_context |-> context, semantic_data |-> sd, message |-> ""]

\* A reply that is not an answer: a body with an error field, a status that is
\* not ok, a rejected fetch.
Failure(kind, message) ==
    [kind |-> kind, response |-> <<>>, graph_context |-> <<>>,
     semantic_data |-> NoSemantic, message |-> message]

Failures ==
    { Failure("error", "SynthesisUnavailable"),
      Failure("http", "HTTP error! status: 500"),
      Failure("network", "Failed to fetch") }

\* Every reply within the bounds.
AllReplies ==
    {OkReply(d, c, sd) : d \in SeqsUpTo(Alphabet, MaxDraftLen),
                         c \in SeqsUpTo(Lines, MaxLines),
                         sd \in SemanticData}
    \cup Failures

\* The replies of the runs with several queries in flight.
PageReplies ==
    { OkReply(<<"a", "b">>, <<>>, NoSemantic),
      OkReply(<<"a", "b">>, <<Found(<<"a">>), Found(<<"b">>)>>, Focus),
      OkReply(<<"b", "a">>, <<Found(<<"a">>), Found(<<"b">>)>>, Focus),
      OkReply(<<"b", "a">>, <<Found(<<"b">>), Listed(<<"a">>)>>, NoSemantic) }
    \cup Failures

\* What the user can type into #queryText.
InputTexts == {<<>>, <<" ">>, <<" ", "q">>, <<"r">>}

\* ------------------------------------------------- chat page (part_006)

VARIABLES
    queryInput,     \* queryInput.value
    chatHistory,    \* the messages of #chatHistory, oldest first
    auditTrail,     \* the entries of #auditTrail, oldest first
    cypherQueries,  \* the content of #cypherQueries
    pending,        \* the calls of submitQuery whose fetch is not settled:
                    \* call number -> queryText of its closure
    nextQuery,      \* the number of the next call of submitQuery that sends
    replied         \* call number -> the reply its fetch settled with

pageVars == <<queryInput, chatHistory, auditTrail, cypherQueries, pending,
              nextQuery, replied>>

\* docs of submitQuery: the lines with 'Found in:', the trimmed text after
\* it, the first occurrence of each title kept.
RECURSIVE FirstOccurrences(_)
FirstOccurrences(s) ==
    IF s = <<>> THEN <<>>
    ELSE LET front == FirstOccurrences(SubSeq(s, 1, Len(s) - 1))
             last == s[Len(s)]
         IN  IF last \in Range(front) THEN front ELSE Append(front, last)

FoundTitles(context) ==
    LET found == SelectSeq(context, LAMBDA line : line.type = "found")
    IN  [i \in 1..Len(found) |-> Trim(found[i].title)]

\* CitedDocs without the filter on self.indexOf(doc) === index.
CitedDocs_NoDedup(context) == FoundTitles(context)

\* CitedDocs built in reverse (docs collected with unshift).
CitedDocs_Reversed(context) ==
    LET docs == FirstOccurrences(FoundTitles(context))
    IN  [k \in 1..Len(docs) |-> docs[Len(docs) + 1 - k]]

CitedDocs(context) == FirstOccurrences(FoundTitles(context))

\* docs.forEach: every title replaced by its marker, in the order of docs.
RECURSIVE SubstituteFrom(_, _, _)
SubstituteFrom(text, docs, k) ==
    IF k > Len(docs) THEN text
    ELSE SubstituteFrom(ReplaceAll(text, docs[k], Marker(k)), docs, k + 1)

Substitute(text, docs) == SubstituteFrom(text, docs, 1)

\* DocRefs numbered by a counter of the page that is never reset.
DocRefs_PageCounter(docs) ==
    [k \in 1..Len(docs) |-> [index |-> Len(auditTrail) + k, doc |-> docs[k]]]

\* DocRefs with a placeholder entry when nothing is cited.
DocRefs_Placeholder(docs) ==
    IF docs = <<>> THEN <<[index |-> 1, doc |-> <<>>]>>
    ELSE [k \in 1..Len(docs) |-> [index |-> k, doc |-> docs[k]]]

\* docRefs: a Set of `${index + 1}. ${doc}`, in insertion order.
DocRefs(docs) == [k \in 1..Len(docs) |-> [index |-> k, doc |-> docs[k]]]

\* docs of updateAuditTrail: every match of /- ([^-\n]+\.txt)/g.
AuditDocs(context) ==
    LET listed == SelectSeq(context, LAMBDA line : line.type = "listed")
    IN  [i \in 1..Len(listed) |-> listed[i].title]

UserMessage(q, queryText) ==
    [kind |-> "user", q |-> q, text |-> queryText, refs |-> <<>>, message |-> ""]

BotMessage(q, data) ==
    LET docs == CitedDocs(data.graph_context)
    IN  [kind |-> "bot", q |-> q, text |-> Substitute(data.response, docs),
         refs |-> DocRefs(docs), message |-> ""]

ErrorMessage(q, message) ==
    [kind |-> "error", q |-> q, text |-> <<>>, refs |-> <<>>, message |-> message]

\* The clock of the browser, in seconds.
VARIABLE now

clockVars == <<now>>

\* The time of day of a date, as toLocaleTimeString prints it with hour,
\* minute and second: the day is dropped.
formatDate(date) == date % DayLength

\* The entry updateAuditTrail appends.
ResourceEntry(q, queryText, data) ==
    [kind |-> "resource", q |-> q, timestamp |-> formatDate(now),
     queryText |-> queryText,
     docs |-> AuditDocs(data.graph_context), focus |-> data.semantic_data,
     message |-> ""]

\* ErrorEntry that drops error.message.
ErrorEntry_NoMessage(q, queryText, message) ==
    [kind |-> "error", q |-> q, timestamp |-> formatDate(now),
     queryText |-> queryText, docs |-> <<>>,
     focus |-> NoSemantic, message |-> ""]

\* The entry the catch handler of submitQuery appends.
ErrorEntry(q, queryText, message) ==
    [kind |-> "error", q |-> q, timestamp |-> formatDate(now),
     queryText |-> queryText, docs |-> <<>>,
     focus |-> NoSemantic, message |-> message]

NoQueries == [graphContext |-> <<>>, semantic_data |-> NoSemantic]

\* The content displayQueries leaves in #cypherQueries.
displayQueries(data) ==
    [graphContext |-> data.graph_context, semantic_data |-> data.semantic_data]

\* updateAuditTrail that assigns innerHTML instead of appending to it.
updateAuditTrail_Overwrite(q, queryText, data) ==
    auditTrail' = <<ResourceEntry(q, queryText, data)>>

updateAuditTrail(q, queryText, data) ==
    auditTrail' = Append(auditTrail, ResourceEntry(q, queryText, data))

PageInit ==
    /\ queryInput = <<>>
    /\ chatHistory = <<>>
    /\ auditTrail = <<>>
    /\ cypherQueries = NoQueries
    /\ pending = <<>>
    /\ nextQuery = 1
    /\ replied = <<>>

\* The user edits the question.
TypeQuestion ==
    /\ \E t \in InputTexts : queryInput' = t
    /\ UNCHANGED <<chatHistory, auditTrail, cypherQueries, pending, nextQuery, replied>>

\* submitQuery up to the fetch, for at most `cap` calls that send.
SubmitQueryUpTo(cap) ==
    LET queryText == Trim(queryInput)
    IN  IF queryText = <<>>
        THEN UNCHANGED pageVars
        ELSE /\ nextQuery <= cap
             /\ queryInput' = <<>>
             /\ chatHistory' = Append(chatHistory, UserMessage(nextQuery, queryText))
             /\ pending' = pending @@ (nextQuery :> queryText)
             /\ nextQuery' = nextQuery + 1
             /\ UNCHANGED <<auditTrail, cypherQueries, replied>>

Without(f, x) == [y \in DOMAIN f \ {x} |-> f[y]]

\* Answered that inserts the answer at the top of #chatHistory.
Answered_Prepends(q, data) ==
    /\ data.kind = "ok"
    /\ queryInput' = <<>>
    /\ chatHistory' = <<BotMessage(q, data)>> \o chatHistory
    /\ cypherQueries' = displayQueries(data)
    /\ updateAuditTrail(q, pending[q], data)

\* The then handlers of the fetch of call q, for an answer.
Answered(q, data) ==
    /\ data.kind = "ok"
    /\ queryInput' = <<>>
    /\ chatHistory' = Append(chatHistory, BotMessage(q, data))
    /\ cypherQueries' = displayQueries(data)
    /\ updateAuditTrail(q, pending[q], data)

\* Caught that shows the error in the chat and leaves the audit trail alone.
Caught_NoAudit(q, data) ==
    /\ data.kind # "ok"
    /\ chatHistory' = Append(chatHistory, ErrorMessage(q, data.message))
    /\ UNCHANGED <<auditTrail, queryInput, cypherQueries>>

\* Caught for a then handler that shows data.response before it tests
\* data.error.
Caught_AfterDisplay(q, data) ==
    /\ data.kind # "ok"
    /\ chatHistory' = Append(Append(chatHistory, BotMessage(q, data)),
                             ErrorMessage(q, data.message))
    /\ auditTrail' = Append(auditTrail, ErrorEntry(q, pending[q], data.message))
    /\ UNCHANGED <<queryInput, cypherQueries>>

\* Caught that also resets #cypherQueries to 'No queries generated.'.
Caught_ClearsTrace(q, data) ==
    /\ data.kind # "ok"
    /\ chatHistory' = Append(chatHistory, ErrorMessage(q, data.message))
    /\ auditTrail' = Append(auditTrail, ErrorEntry(q, pending[q], data.message))
    /\ cypherQueries' = NoQueries
    /\ UNCHANGED queryInput

\* The catch handler of the fetch of call q.
Caught(q, data) ==
    /\ data.kind # "ok"
    /\ chatHistory' = Append(chatHistory, ErrorMessage(q, data.message))
    /\ auditTrail' = Append(auditTrail, ErrorEntry(q, pending[q], data.message))
    /\ UNCHANGED <<queryInput, cypherQueries>>

\* The fetch of call q settles with `data`.
ResponseArrives(q, data) ==
    /\ q \in DOMAIN pending
    /\ \/ Answered(q, data)
       \/ Caught(q, data)
    /\ pending' = Without(pending, q)
    /\ replied' = replied @@ (q :> data)
    /\ UNCHANGED nextQuery

SubmitQuery == SubmitQueryUpTo(MaxQueries)

Reply == \E q \in DOMAIN pending, data \in PageReplies : ResponseArrives(q, data)

\* One query at a time, its reply any reply within the bounds.
SubmitOneQuery == SubmitQueryUpTo(1)

AnyReply == \E q \in DOMAIN pending, data \in AllReplies : ResponseArrives(q, data)

\* The replies of the runs with a clock.
ClockReplies ==
    { OkReply(<<"a">>, <<Listed(<<"a">>)>>, Focus),
      Failure("error", "SynthesisUnavailable") }

ClockReply == \E q \in DOMAIN pending, data \in ClockReplies : ResponseArrives(q, data)

ClockInit == now = 0

\* A second passes.
Tick ==
    /\ now < MaxTime
    /\ now' = now + 1

\* ------------------------------------ the handlers of submitQuery, by step
\* The then handler of the fetch, one statement group at a time, and the catch
\* handler that runs when one of them throws. A handler runs to completion:
\* nothing else of the page runs between its steps.

VARIABLE handler

handlerVars == <<handler>>

NoData == Failure("none", "")
HandlerIdle == [step |-> "idle", q |-> 0, data |-> NoData]

\* A reply whose graph_context is the JSON value false: submitQuery and
\* displayQueries take it for an absent context; in updateAuditTrail,
\* graphContext?.match(...) calls a method that false does not have.
FalseContextReply(draft) ==
    OkReply(draft, <<>>, NoSemantic) @@ ("context_type" :> "boolean")

MatchThrows(data) == "context_type" \in DOMAIN data

MatchError == "graphContext?.match is not a function"

StepReplies ==
    { OkReply(<<"a">>, <<Found(<<"a">>), Listed(<<"a">>)>>, Focus),
      FalseContextReply(<<"a">>),
      Failure("error", "SynthesisUnavailable") }

\* The then handler with the audit entry written first.
AnsweredSteps_AuditFirst == <<"audit", "show", "trace", "clear">>

\* The statement groups of the then handler once data.error is known to be
\* absent, in the order of the source.
AnsweredSteps == <<"show", "trace", "audit", "clear">>

\* The step after `step`, "idle" after the last.
StepAfter(step) ==
    LET k == CHOOSE i \in DOMAIN AnsweredSteps : AnsweredSteps[i] = step
    IN  IF k = Len(AnsweredSteps) THEN "idle" ELSE AnsweredSteps[k + 1]

HandlerInit == handler = HandlerIdle

\* The handler goes on with `step`; at "idle" it has returned and the call
\* is settled.
GoOn(step) ==
    IF step = "idle"
    THEN /\ handler' = HandlerIdle
         /\ pending' = Without(pending, handler.q)
         /\ replied' = replied @@ (handler.q :> handler.data)
    ELSE /\ handler' = [handler EXCEPT !.step = step]
         /\ UNCHANGED <<pending, replied>>

\* The response of call q arrives and its handler starts: a reply that is
\* not an answer throws before anything is shown.
HandlerStarts(q, data) ==
    /\ handler.step = "idle"
    /\ q \in DOMAIN pending
    /\ handler' = [step |-> IF data.kind = "ok" THEN AnsweredSteps[1] ELSE "catch",
                   q |-> q, data |-> data]
    /\ UNCHANGED pageVars

StartHandler == \E q \in DOMAIN pending, data \in StepReplies : HandlerStarts(q, data)

\* The input is cleared and the answer is appended to the chat.
ShowStep ==
    /\ handler.step = "show"
    /\ queryInput' = <<>>
    /\ chatHistory' = Append(chatHistory, BotMessage(handler.q, handler.data))
    /\ GoOn(StepAfter("show"))
    /\ UNCHANGED <<auditTrail, cypherQueries, nextQuery>>

TraceStep ==
    /\ handler.step = "trace"
    /\ cypherQueries' = displayQueries(handler.data)
    /\ GoOn(StepAfter("trace"))
    /\ UNCHANGED <<queryInput, chatHistory, auditTrail, nextQuery>>

\* updateAuditTrail: it appends the entry, or throws.
AuditStep ==
    /\ handler.step = "audit"
    /\ IF MatchThrows(handler.data)
       THEN /\ handler' = [handler EXCEPT !.step = "catch"]
            /\ UNCHANGED <<auditTrail, pending, replied>>
       ELSE /\ updateAuditTrail(handler.q, pending[handler.q], handler.data)
            /\ GoOn(StepAfter("audit"))
    /\ UNCHANGED <<queryInput, chatHistory, cypherQueries, nextQuery>>

ClearStep ==
    /\ handler.step = "clear"
    /\ queryInput' = <<>>
    /\ GoOn(StepAfter("clear"))
    /\ UNCHANGED <<chatHistory, auditTrail, cypherQueries, nextQuery>>

\* The catch handler, with the message of what was thrown.
CatchStep ==
    /\ handler.step = "catch"
    /\ LET message == IF handler.data.kind = "ok" THEN MatchError ELSE handler.data.message
       IN  /\ chatHistory' = Append(chatHistory, ErrorMessage(handler.q, message))
           /\ auditTrail' = Append(auditTrail, ErrorEntry(handler.q, pending[handler.q], message))
    /\ GoOn("idle")
    /\ UNCHANGED <<queryInput, cypherQueries, nextQuery>>

\* The user's actions wait for a running handler to return.
TypeWhenIdle == handler.step = "idle" /\ TypeQuestion /\ UNCHANGED handler
SubmitWhenIdle == handler.step = "idle" /\ SubmitQuery /\ UNCHANGED handler

\* ------------------------------ React application: QueryPanel (ForceGraph.jsx)

VARIABLES
    query,          \* the state `query` of QueryPanel
    queryResult,    \* the state `queryResult` of App, shown in #queryResult
    panelPending,   \* the calls of handleSubmit that await: call number -> query sent
    nextPanel,      \* the number of the next call of handleSubmit
    panelSettled    \* call number -> the reply and what handleSubmit did with it

panelVars == <<query, queryResult, panelPending, nextPanel, panelSettled>>

\* A value of data.response: the text, or undefined for a body without it.
Defined(text) == [defined |-> TRUE, text |-> text]
Undefined == [defined |-> FALSE, text |-> <<>>]

\* data.response of the body `await response.json()` yields.
ResponseField(data) ==
    IF data.kind = "ok" THEN Defined(data.response) ELSE Undefined

\* response.json() yields a body: the reply is an answer or a body with an
\* error field; for a reply that is no JSON, or a rejected fetch, handleSubmit
\* throws before onQueryResult.
HasBody(data) == data.kind \in {"ok", "error"}

PanelInit ==
    /\ query = <<>>
    /\ queryResult = Defined(<<>>)
    /\ panelPending = <<>>
    /\ nextPanel = 1
    /\ panelSettled = <<>>

\* onChange of the textarea.
TypeQuery ==
    /\ \E t \in InputTexts : query' = t
    /\ UNCHANGED <<queryResult, panelPending, nextPanel, panelSettled>>

\* handleSubmit up to its first await.
handleSubmit ==
    /\ nextPanel <= MaxPanelQueries
    /\ panelPending' = panelPending @@ (nextPanel :> query)
    /\ nextPanel' = nextPanel + 1
    /\ UNCHANGED <<query, queryResult, panelSettled>>

\* handleSubmit after its awaits, for the reply `data` of call c.
PanelResponse(c, data) ==
    /\ c \in DOMAIN panelPending
    /\ IF HasBody(data)
       THEN /\ queryResult' = ResponseField(data)
            /\ panelSettled' = panelSettled @@
                   (c :> [question |-> panelPending[c], reply |-> data,
                          called |-> TRUE, result |-> ResponseField(data)])
       ELSE /\ queryResult' = queryResult
            /\ panelSettled' = panelSettled @@
                   (c :> [question |-> panelPending[c], reply |-> data,
                          called |-> FALSE, result |-> Undefined])
    /\ panelPending' = Without(panelPending, c)
    /\ UNCHANGED <<query, nextPanel>>

PanelReply == \E c \in DOMAIN panelPending, data \in PageReplies : PanelResponse(c, data)

\* ----------------------------------------------- query resolution pipeline
\* The server behind /query: the pipeline of one query, from the question to
\* its audit entry.

MaxResults == 2
MaxFragments == 2

VARIABLES stage, question, intent, generatedQueries, executor, executed,
          contextWindow, outcome, auditLog

pipelineVars == <<stage, question, intent, generatedQueries, executor,
                  executed, contextWindow, outcome, auditLog>>

Null == "null"
Nouns == {"team"}
Verbs == {"run"}

\* Questions, as sequences of words and blanks.
Questions ==
    { <<>>, <<" ">>, <<"team", " ">>, <<" ", "run">>, <<"the">>,
      <<"team", "run">>, <<"run", "the", "team">> }

\* The first word of text that is in the class, or Null.
FirstOf(text, class) ==
    IF \E i \in DOMAIN text : text[i] \in class
    THEN text[CHOOSE i \in DOMAIN text :
                  /\ text[i] \in class
                  /\ \A j \in 1..(i - 1) : text[j] \notin class]
    ELSE Null

\* parse that fills a missing focus with the focus of the query before.
parse_Sticky(text) ==
    [focus |-> IF FirstOf(text, Nouns) = Null THEN intent.focus ELSE FirstOf(text, Nouns),
     action |-> FirstOf(text, Verbs),
     text |-> Trim(text)]

parse(text) ==
    [focus |-> FirstOf(text, Nouns), action |-> FirstOf(text, Verbs),
     text |-> Trim(text)]

NoIntent == [focus |-> Null, action |-> Null, text |-> <<>>]

Targeted(i) == [kind |-> "targeted", focus |-> i.focus, action |-> i.action, intent |-> i]
Fallback(i) == [kind |-> "fallback", focus |-> Null, action |-> Null, intent |-> i]

\* build without the fallback query when a targeted query exists.
build_TargetedOnly(i) ==
    IF i.focus # Null /\ i.action # Null
    THEN <<Targeted(i)>>
    ELSE <<Fallback(i)>>

build(i) ==
    IF i.focus # Null /\ i.action # Null
    THEN <<Targeted(i), Fallback(i)>>
    ELSE <<Fallback(i)>>

\* What one call of the executor does.
ExecutorOutcomes == {"ok", "timeout", "unavailable"}

\* The rows a query can match: a document and the number of its property
\* keys that matched.
Documents == {"d1", "d2", "d3"}
Rows ==
    { [doc |-> "d1", density |-> 2], [doc |-> "d2", density |-> 1],
      [doc |-> "d3", density |-> 1] }
ExecutionResults == SeqsUpTo(Rows, MaxResults)

score(generated, row) ==
    row.density + (IF generated.kind = "targeted" THEN 1 ELSE 0)

\* The fragments of the first n results, in the order they arrived.
RECURSIVE FragmentsUpTo(_, _)
FragmentsUpTo(results, n) ==
    IF n = 0 THEN <<>>
    ELSE FragmentsUpTo(results, n - 1) \o
         [k \in 1..Len(results[n].rows) |->
             [doc |-> results[n].rows[k].doc,
              score |-> score(results[n].query, results[n].rows[k]),
              origin |-> n]]

Fragments(results) == FragmentsUpTo(results, Len(results))

\* Fragment i goes before fragment j with the later arrival first among
\* equal scores.
Before_LatestFirst(frags, i, j) ==
    \/ frags[i].score > frags[j].score
    \/ frags[i].score = frags[j].score /\ i > j

\* Fragment i goes before fragment j: it has the higher score or, with the
\* same score, it arrived earlier (an earlier query, or earlier in the rows of
\* the same query).
Before(frags, i, j) ==
    \/ frags[i].score > frags[j].score
    \/ frags[i].score = frags[j].score /\ i < j

\* Deduplication that keeps the fragment of a document that goes behind its
\* other fragments.
Kept_Lowest(frags) ==
    {i \in DOMAIN frags :
        \A j \in DOMAIN frags \ {i} :
            frags[j].doc = frags[i].doc => Before(frags, j, i)}

\* The fragments that stay after deduplication: of every document the
\* fragment that goes before its other fragments.
Kept(frags) ==
    {i \in DOMAIN frags :
        \A j \in DOMAIN frags \ {i} :
            frags[j].doc = frags[i].doc => Before(frags, i, j)}

\* The kept fragments in their order.
Rank(frags, kept) ==
    [p \in 1..Cardinality(kept) |->
        frags[CHOOSE i \in kept :
                  Cardinality({j \in kept : Before(frags, j, i)}) = p - 1]]

Truncate(frags, maxFragments) ==
    SubSeq(frags, 1, IF Len(frags) < maxFragments THEN Len(frags) ELSE maxFragments)

assemble(results, maxFragments) ==
    Truncate(Rank(Fragments(results), Kept(Fragments(results))), maxFragments)

NoOutcome == [kind |-> "none", stage |-> "", error |-> ""]
Answer(kind) == [kind |-> kind, stage |-> "", error |-> ""]
Failed(at, error) == [kind |-> "failed", stage |-> at, error |-> error]

record(q, queries, ctx, out) ==
    [question |-> q, generatedQueries |-> queries, context |-> ctx, outcome |-> out]

PipelineInit ==
    /\ stage = "Idle"
    /\ question = <<>>
    /\ intent = NoIntent
    /\ generatedQueries = <<>>
    /\ executor = [k \in {"targeted", "fallback"} |-> "ok"]
    /\ executed = <<>>
    /\ contextWindow = <<>>
    /\ outcome = NoOutcome
    /\ auditLog = <<>>

\* The query ends in Failed(at) and its audit entry is emitted.
Fail(at, error) ==
    /\ stage' = "Failed"
    /\ outcome' = Failed(at, error)
    /\ auditLog' = Append(auditLog, record(question, generatedQueries, contextWindow, Failed(at, error)))

\* A question arrives; the executor's behaviour for this query is fixed by
\* the graph store and the load, not by the pipeline.
Receive ==
    /\ stage = "Idle"
    /\ \E text \in Questions : question' = text
    /\ executor' \in [{"targeted", "fallback"} -> ExecutorOutcomes]
    /\ stage' = "Received"
    /\ UNCHANGED <<intent, generatedQueries, executed, contextWindow, outcome, auditLog>>

Parse ==
    /\ stage = "Received"
    /\ IF Trim(question) = <<>>
       THEN /\ Fail("Parsed", "EmptyQuestion")
            /\ UNCHANGED intent
       ELSE /\ intent' = parse(question)
            /\ stage' = "Parsed"
            /\ UNCHANGED <<outcome, auditLog>>
    /\ UNCHANGED <<question, generatedQueries, executor, executed, contextWindow>>

Build ==
    /\ stage = "Parsed"
    /\ generatedQueries = <<>>
    /\ generatedQueries' = build(intent)
    /\ UNCHANGED <<stage, question, intent, executor, executed, contextWindow, outcome, auditLog>>

Result(generated, kind, rows) == [query |-> generated, outcome |-> kind, rows |-> rows]

\* Execute for a pipeline that gives the query up on an executor timeout.
Execute_FailOnTimeout ==
    /\ stage = "Parsed"
    /\ Len(executed) < Len(generatedQueries)
    /\ LET generated == generatedQueries[Len(executed) + 1]
           last == Len(executed) + 1 = Len(generatedQueries)
       IN  \/ /\ executor[generated.kind] = "ok"
              /\ \E rows \in ExecutionResults :
                     executed' = Append(executed, Result(generated, "ok", rows))
              /\ stage' = IF last THEN "Queried" ELSE "Parsed"
              /\ UNCHANGED <<outcome, auditLog>>
           \/ /\ executor[generated.kind] = "unavailable"
              /\ executed' = Append(executed, Result(generated, "unavailable", <<>>))
              /\ stage' = IF last THEN "Queried" ELSE "Parsed"
              /\ UNCHANGED <<outcome, auditLog>>
           \/ /\ executor[generated.kind] = "timeout"
              /\ executed' = Append(executed, Result(generated, "timeout", <<>>))
              /\ Fail("Queried", "ExecutorTimeout")
    /\ UNCHANGED <<question, intent, generatedQueries, executor, contextWindow>>

\* The next generated query is handed to the executor. A timeout ends the
\* Queried stage and skips the queries left; an unavailable executor yields
\* no rows for this query.
Execute ==
    /\ stage = "Parsed"
    /\ Len(executed) < Len(generatedQueries)
    /\ LET generated == generatedQueries[Len(executed) + 1]
           last == Len(executed) + 1 = Len(generatedQueries)
       IN  \/ /\ executor[generated.kind] = "ok"
              /\ \E rows \in ExecutionResults :
                     executed' = Append(executed, Result(generated, "ok", rows))
              /\ stage' = IF last THEN "Queried" ELSE "Parsed"
           \/ /\ executor[generated.kind] = "unavailable"
              /\ executed' = Append(executed, Result(generated, "unavailable", <<>>))
              /\ stage' = IF last THEN "Queried" ELSE "Parsed"
           \/ /\ executor[generated.kind] = "timeout"
              /\ executed' = Append(executed, Result(generated, "timeout", <<>>))
              /\ stage' = "Queried"
    /\ UNCHANGED <<question, intent, generatedQueries, executor, contextWindow, outcome, auditLog>>

Assemble ==
    /\ stage = "Queried"
    /\ contextWindow' = assemble(executed, MaxFragments)
    /\ stage' = "Assembled"
    /\ UNCHANGED <<question, intent, generatedQueries, executor, executed, outcome, auditLog>>

\* Synthesize that hands an empty context to the text generation too.
Synthesize_AlwaysGenerates ==
    /\ stage = "Assembled"
    /\ \/ /\ outcome' = Answer(IF contextWindow = <<>> THEN "insufficient information" ELSE "answer")
          /\ stage' = "Synthesized"
          /\ UNCHANGED auditLog
       \/ Fail("Synthesized", "SynthesisUnavailable")
    /\ UNCHANGED <<question, intent, generatedQueries, executor, executed, contextWindow>>

\* An empty context gives the fixed answer; otherwise the text generation
\* drafts the answer, or fails.
Synthesize ==
    /\ stage = "Assembled"
    /\ \/ /\ outcome' = Answer(IF contextWindow = <<>> THEN "insufficient information" ELSE "answer")
          /\ stage' = "Synthesized"
          /\ UNCHANGED auditLog
       \/ /\ contextWindow # <<>>
          /\ Fail("Synthesized", "SynthesisUnavailable")
    /\ UNCHANGED <<question, intent, generatedQueries, executor, executed, contextWindow>>

Record ==
    /\ stage = "Synthesized"
    /\ auditLog' = Append(auditLog, record(question, generatedQueries, contextWindow, outcome))
    /\ stage' = "Recorded"
    /\ UNCHANGED <<question, intent, generatedQueries, executor, executed, contextWindow, outcome>>

\* ------------------------------------------- the parser over several queries

\* The parses made so far: the question text and the Intent it yielded.
VARIABLE parses

parserVars == <<parses>>

ParserInit == parses = <<>>

\* The next question, not empty, reaches the parser of the same process.
NextQuestion ==
    /\ stage \in {"Idle", "Parsed"}
    /\ Len(parses) < MaxParses
    /\ \E text \in {t \in Questions : Trim(t) # <<>>} : question' = text
    /\ stage' = "Received"
    /\ UNCHANGED <<intent, generatedQueries, executor, executed, contextWindow,
                   outcome, auditLog, parses>>

\* Parse, and the parse is logged.
ParseLogged ==
    /\ Parse
    /\ parses' = Append(parses, [text |-> question, intent |-> intent'])

\* ------------------------------------------------------------ upload forms
\* The upload form of the chat page (part_006) and the DocumentUpload
\* component of the React application (part_005).

VARIABLES
    fileInput,        \* the file chosen in #documentFile, "" for none
    submitButton,     \* [disabled]: the submit button of #uploadForm
    statusContainer,  \* #uploadStatus: the class and the text updateUploadStatus set
    progressBar,      \* #uploadProgress: what updateProgress set
    uploads,          \* the fetches of /upload of the page: number -> phase and reply
    nextUpload,       \* the number of the next fetch of the page
    uploadSettled,    \* number -> the reply and the status shown when it was handled
    appUploads,       \* the calls of DocumentUpload.handleSubmit that await
    alerts,           \* the alerts DocumentUpload has raised
    nextAppUpload,    \* the number of the next call of handleSubmit
    appSettled        \* call number -> the reply and the alert raised, <<>> for none

uploadVars == <<fileInput, submitButton, statusContainer, progressBar, uploads,
                nextUpload, uploadSettled, appUploads, alerts, nextAppUpload,
                appSettled>>

formVars == <<fileInput, submitButton, statusContainer, progressBar, uploads,
              nextUpload, uploadSettled>>

appUploadVars == <<appUploads, alerts, nextAppUpload, appSettled>>

\* What /upload answers: whether a response arrived at all, its status,
\* whether its body is JSON, and the fields error and doc_info of that body.
UploadReply(arrived, ok, json, error, doc_info) ==
    [arrived |-> arrived, ok |-> ok, json |-> json, error |-> error, doc_info |-> doc_info]

ServerError == "Unsupported file type"

UploadReplies ==
    { UploadReply(TRUE, TRUE, TRUE, "", TRUE),            \* processed, with doc_info
      UploadReply(TRUE, TRUE, TRUE, "", FALSE),           \* { documentId, status }
      UploadReply(TRUE, FALSE, TRUE, ServerError, FALSE), \* status 400, { error }
      UploadReply(TRUE, TRUE, TRUE, ServerError, FALSE),  \* status 200, { error }
      UploadReply(TRUE, FALSE, FALSE, "", FALSE),         \* status 500, an HTML page
      UploadReply(FALSE, FALSE, FALSE, "", FALSE) }       \* the fetch is rejected

FetchRejected == "Failed to fetch"
NotJson == "Unexpected token '<'"

\* A message is the sequence of the literal and the interpolated parts of its
\* template.
Hidden == [type |-> "none", message |-> <<>>]
updateUploadStatus(message, type) == [type |-> type, message |-> message]
NoProgress == [percent |-> 0, stage |-> ""]
updateProgress(percent, label) == [percent |-> percent, stage |-> label]

UploadInit ==
    /\ fileInput = ""
    /\ submitButton = [disabled |-> FALSE]
    /\ statusContainer = Hidden
    /\ progressBar = NoProgress
    /\ uploads = <<>>
    /\ nextUpload = 1
    /\ uploadSettled = <<>>
    /\ appUploads = {}
    /\ alerts = <<>>
    /\ nextAppUpload = 1
    /\ appSettled = <<>>

\* The uploads of the page form whose fetch has not run its handlers to the
\* end.
InFlight == DOMAIN uploads

\* The user picks a file, or clears the choice.
ChooseFile ==
    /\ \E f \in {"", "notes.txt"} : fileInput' = f
    /\ UNCHANGED <<submitButton, statusContainer, progressBar, uploads,
                   nextUpload, uploadSettled>>

\* The submit listener without the line that disables the button.
SubmitUpload_NoDisable ==
    /\ ~submitButton.disabled
    /\ IF fileInput = ""
       THEN /\ statusContainer' = updateUploadStatus(<<"Please select a file to upload">>, "warning")
            /\ UNCHANGED <<submitButton, progressBar, uploads, nextUpload>>
       ELSE /\ nextUpload <= MaxUploads
            /\ UNCHANGED submitButton
            /\ progressBar' = updateProgress(20, "Starting upload")
            /\ statusContainer' = updateUploadStatus(<<"Processing document...">>, "info")
            /\ uploads' = uploads @@ (nextUpload :> [phase |-> "fetch", reply |-> UploadReply(FALSE, FALSE, FALSE, "", FALSE)])
            /\ nextUpload' = nextUpload + 1
    /\ UNCHANGED <<fileInput, uploadSettled>>

\* The submit listener of #uploadForm. A disabled submit button submits
\* nothing.
SubmitUpload ==
    /\ ~submitButton.disabled
    /\ IF fileInput = ""
       THEN /\ statusContainer' = updateUploadStatus(<<"Please select a file to upload">>, "warning")
            /\ UNCHANGED <<submitButton, progressBar, uploads, nextUpload>>
       ELSE /\ nextUpload <= MaxUploads
            /\ submitButton' = [disabled |-> TRUE]
            /\ progressBar' = updateProgress(20, "Starting upload")
            /\ statusContainer' = updateUploadStatus(<<"Processing document...">>, "info")
            /\ uploads' = uploads @@ (nextUpload :> [phase |-> "fetch", reply |-> UploadReply(FALSE, FALSE, FALSE, "", FALSE)])
            /\ nextUpload' = nextUpload + 1
    /\ UNCHANGED <<fileInput, uploadSettled>>

\* The message of what the then handlers throw for a reply, "" when they
\* throw nothing.
Thrown(reply) ==
    IF ~reply.arrived THEN FetchRejected
    ELSE IF ~reply.json THEN NotJson
    ELSE reply.error

\* The then handlers and the catch handler of the fetch of upload u.
UploadHandled(u, reply) ==
    /\ u \in DOMAIN uploads
    /\ uploads[u].phase = "fetch"
    /\ IF Thrown(reply) # ""
       THEN /\ statusContainer' = updateUploadStatus(<<"Error: ", Thrown(reply)>>, "danger")
            /\ progressBar' = updateProgress(0, "Error")
            /\ UNCHANGED fileInput
       ELSE /\ IF reply.doc_info
               THEN /\ progressBar' = updateProgress(100, "Complete")
                    /\ statusContainer' = updateUploadStatus(<<"Document uploaded and processed successfully!">>, "success")
               ELSE UNCHANGED <<progressBar, statusContainer>>
            /\ fileInput' = ""
    /\ uploads' = [uploads EXCEPT ![u] = [phase |-> "finally", reply |-> reply]]
    /\ uploadSettled' = uploadSettled @@ (u :> [reply |-> reply, shown |-> statusContainer'])
    /\ UNCHANGED <<submitButton, nextUpload>>

UploadResponse == \E u \in DOMAIN uploads, reply \in UploadReplies : UploadHandled(u, reply)

\* The finally handler of the fetch of upload u.
UploadFinally ==
    \E u \in DOMAIN uploads :
        /\ uploads[u].phase = "finally"
        /\ submitButton' = [disabled |-> FALSE]
        /\ uploads' = Without(uploads, u)
        /\ UNCHANGED <<fileInput, statusContainer, progressBar, nextUpload, uploadSettled>>

\* App (part_003): the graph. A graph is the number of documents in it; the
\* empty graph, { nodes: [], links: [] }, is 0. The /graph server is not part
\* of the sources: a fetch returns the graph the server held when the fetch
\* was issued.
VARIABLES
    graphData,      \* the state graphData of App
    svg,            \* the graph ForceGraph has drawn, 0 when it has drawn none
    graphServer,    \* the graph the server holds
    graphFetches,   \* fetches of /graph in flight -> the graph each will return
    nextFetch,      \* number of the next fetch of /graph
    graphSettled    \* every fetch of /graph that settled -> what it returned

graphVars == <<graphData, svg, graphServer, graphFetches, nextFetch, graphSettled>>

NoGraph == 0

\* The state once App has mounted: the effect has called fetchGraphData.
GraphInit ==
    /\ graphData = NoGraph
    /\ svg = NoGraph
    /\ graphServer = NoGraph
    /\ graphFetches = (1 :> NoGraph)
    /\ nextFetch = 2
    /\ graphSettled = <<>>

\* fetchGraphData up to the await of fetch, the server holding `graph`.
fetchGraphData(graph) ==
    /\ graphFetches' = graphFetches @@ (nextFetch :> graph)
    /\ nextFetch' = nextFetch + 1

\* The effect of ForceGraph for the data it is given.
Drawn(data) == IF data = NoGraph THEN svg ELSE data

\* The rest of fetchGraphData once fetch f has settled: with a body,
\* setGraphData and the effect of ForceGraph; without one, it throws.
GraphFetched(f, ok) ==
    /\ f \in DOMAIN graphFetches
    /\ IF ok
       THEN /\ graphData' = graphFetches[f]
            /\ svg' = Drawn(graphFetches[f])
       ELSE UNCHANGED <<graphData, svg>>
    /\ graphFetches' = Without(graphFetches, f)
    /\ graphSettled' = graphSettled @@ (f :> [ok |-> ok, data |-> graphFetches[f]])
    /\ UNCHANGED <<graphServer, nextFetch>>

GraphResponse == \E f \in DOMAIN graphFetches, ok \in BOOLEAN : GraphFetched(f, ok)

\* DocumentUpload.handleSubmit up to the fetch, for at most `cap` calls; the
\* file input is required.
handleUploadUpTo(cap) ==
    /\ nextAppUpload <= cap
    /\ appUploads' = appUploads \cup {nextAppUpload}
    /\ nextAppUpload' = nextAppUpload + 1
    /\ UNCHANGED <<alerts, appSettled>>
    /\ UNCHANGED graphVars

handleUpload == handleUploadUpTo(MaxAppUploads)

\* The uploads of the runs that follow the graph.
handleGraphUpload == handleUploadUpTo(MaxGraphUploads)

\* What handleSubmit alerts for a reply, <<>> when it raises no alert: a
\* rejected fetch and a body that is not JSON make it throw.
Alerted(reply) ==
    IF ~reply.arrived THEN <<>>
    ELSE IF reply.ok THEN <<"Document uploaded successfully!">>
    ELSE IF ~reply.json THEN <<>>
    ELSE <<"Error: ", reply.error>>

\* The rest of handleSubmit, after the await of the fetch of call c: the
\* alert, and onUpload, which is fetchGraphData of App.
AppUploadHandled(c, reply) ==
    /\ c \in appUploads
    /\ alerts' = IF Alerted(reply) = <<>> THEN alerts ELSE Append(alerts, Alerted(reply))
    /\ appUploads' = appUploads \ {c}
    /\ appSettled' = appSettled @@ (c :> [reply |-> reply, shown |-> Alerted(reply)])
    /\ graphServer' = IF reply.arrived /\ reply.ok /\ reply.error = ""
                      THEN graphServer + 1 ELSE graphServer
    /\ IF reply.arrived /\ reply.ok
       THEN fetchGraphData(graphServer')
       ELSE UNCHANGED <<graphFetches, nextFetch>>
    /\ UNCHANGED <<nextAppUpload, graphData, svg, graphSettled>>

AppUploadResponse == \E c \in appUploads, reply \in UploadReplies : AppUploadHandled(c, reply)

\* --------------------------------------- journal recorder (journal.html)

VARIABLES
    mediaRecorder,      \* the recorder `mediaRecorder` refers to, 0 when undefined
    audioChunks,        \* the array audioChunks
    recordingInterval,  \* the timer id in recordingInterval, 0 when undefined
    recordingSeconds,   \* recordingSeconds, shown in #recordingTime by the timer
    audioPreview,       \* #audioPreview: visible, and the blob of #recordedAudio
    starting,           \* calls of startRecording that wait for getUserMedia
    recorders,          \* every MediaRecorder created -> its state
    timers,             \* the intervals that are set and not cleared
    nextStart,          \* number of the next call of startRecording
    saving,             \* uploads of Save Recording whose fetch has not settled
    saves               \* every click on Save Recording: what it sent, what was shown

journalVars == <<mediaRecorder, audioChunks, recordingInterval, recordingSeconds,
                 audioPreview, starting, recorders, timers, nextStart, saving, saves>>

\* A MediaRecorder started without a timeslice delivers its data in one
\* dataavailable event when it stops: the chunk of recorder r is r.
\* A recorder is "recording", then "stopping" from stop() until the task that
\* fires dataavailable and stop has run, then "inactive".
NoPreview == [visible |-> FALSE, src |-> <<>>]

JournalInit ==
    /\ mediaRecorder = 0
    /\ audioChunks = <<>>
    /\ recordingInterval = 0
    /\ recordingSeconds = 0
    /\ audioPreview = NoPreview
    /\ starting = {}
    /\ recorders = <<>>
    /\ timers = {}
    /\ nextStart = 1
    /\ saving = {}
    /\ saves = <<>>

\* mediaRecorder && mediaRecorder.state === 'recording'
IsRecording == mediaRecorder # 0 /\ recorders[mediaRecorder] = "recording"

\* startRecording up to the await of getUserMedia.
startRecording ==
    /\ nextStart <= MaxStarts
    /\ starting' = starting \cup {nextStart}
    /\ nextStart' = nextStart + 1
    /\ UNCHANGED <<mediaRecorder, audioChunks, recordingInterval, recordingSeconds,
                   audioPreview, recorders, timers, saving, saves>>

\* stopRecording, called only when IsRecording holds.
stopRecording ==
    /\ recorders' = [recorders EXCEPT ![mediaRecorder] = "stopping"]
    /\ timers' = timers \ {recordingInterval}
    /\ UNCHANGED <<mediaRecorder, audioChunks, recordingInterval, recordingSeconds,
                   audioPreview, starting, nextStart, saving, saves>>

\* The click listener of #recordButton.
ClickRecord == IF IsRecording THEN stopRecording ELSE startRecording

\* getUserMedia of call s settles: with a stream, startRecording goes on to
\* its end; without one, the catch block alerts.
GetUserMediaSettles ==
    \E s \in starting, granted \in BOOLEAN :
        /\ starting' = starting \ {s}
        /\ IF granted
           THEN /\ mediaRecorder' = s
                /\ audioChunks' = <<>>
                /\ recorders' = recorders @@ (s :> "recording")
                /\ recordingSeconds' = 0
                /\ recordingInterval' = s
                /\ timers' = timers \cup {s}
           ELSE UNCHANGED <<mediaRecorder, audioChunks, recorders, recordingSeconds,
                            recordingInterval, timers>>
        /\ UNCHANGED <<audioPreview, nextStart, saving, saves>>

\* The task queued by stop(): ondataavailable, then onstop.
RecorderStops ==
    \E r \in DOMAIN recorders :
        /\ recorders[r] = "stopping"
        /\ recorders' = [recorders EXCEPT ![r] = "inactive"]
        /\ audioChunks' = Append(audioChunks, r)
        /\ audioPreview' = [visible |-> TRUE, src |-> audioChunks']
        /\ UNCHANGED <<mediaRecorder, recordingInterval, recordingSeconds, starting,
                       timers, nextStart, saving, saves>>

\* One second passes: every interval that is set calls updateRecordingTime.
Second ==
    /\ timers # {}
    /\ recordingSeconds < MaxSeconds
    /\ recordingSeconds' = recordingSeconds + Cardinality(timers)
    /\ UNCHANGED <<mediaRecorder, audioChunks, recordingInterval, audioPreview,
                   starting, recorders, timers, nextStart, saving, saves>>

\* The click listener of #saveRecording up to the await of fetch; the button
\* is inside #audioPreview.
SaveRecording ==
    /\ audioPreview.visible
    /\ Len(saves) < MaxSaves
    /\ saves' = Append(saves, [sent |-> audioChunks, shown |-> audioPreview.src])
    /\ saving' = saving \cup {Len(saves) + 1}
    /\ UNCHANGED <<mediaRecorder, audioChunks, recordingInterval, recordingSeconds,
                   audioPreview, starting, recorders, timers, nextStart>>

\* The fetch of a save settles: the preview is hidden when the response is ok.
SaveSettles ==
    \E i \in saving, ok \in BOOLEAN :
        /\ saving' = saving \ {i}
        /\ audioPreview' = IF ok THEN [audioPreview EXCEPT !.visible = FALSE]
                                 ELSE audioPreview
        /\ UNCHANGED <<mediaRecorder, audioChunks, recordingInterval, recordingSeconds,
                       starting, recorders, timers, nextStart, saves>>

\* The click listener of #discardRecording.
DiscardRecording ==
    /\ audioPreview.visible
    /\ audioPreview' = NoPreview
    /\ audioChunks' = <<>>
    /\ UNCHANGED <<mediaRecorder, recordingInterval, recordingSeconds, starting,
                   recorders, timers, nextStart, saving, saves>>

\* ---------------------------------------------------------- specifications

vars == <<pageVars, handlerVars, clockVars, panelVars, pipelineVars, parserVars,
          uploadVars, journalVars, graphVars>>

\* What the chat page, the query panel and the pipeline leave alone.
besidePage ==
    <<handlerVars, clockVars, panelVars, pipelineVars, uploadVars, parserVars, journalVars,
      graphVars>>
besideSteps ==
    <<clockVars, panelVars, pipelineVars, uploadVars, parserVars, journalVars,
      graphVars>>
besidePanel ==
    <<pageVars, handlerVars, clockVars, pipelineVars, uploadVars, parserVars, journalVars,
      graphVars>>
besideParser ==
    <<pageVars, handlerVars, clockVars, panelVars, uploadVars, journalVars,
      graphVars>>
besidePipeline == <<besideParser, parserVars>>
besideClock ==
    <<pageVars, handlerVars, panelVars, pipelineVars, uploadVars, parserVars, journalVars,
      graphVars>>
besideForm ==
    <<pageVars, handlerVars, clockVars, panelVars, pipelineVars, appUploadVars, parserVars, journalVars,
      graphVars>>
besideGraph ==
    <<pageVars, handlerVars, clockVars, panelVars, pipelineVars, uploadVars, parserVars,
      journalVars>>
besideJournal ==
    <<pageVars, handlerVars, clockVars, panelVars, pipelineVars, uploadVars, parserVars,
      graphVars>>
besideAppUpload ==
    <<pageVars, handlerVars, clockVars, panelVars, pipelineVars, formVars, parserVars, journalVars>>

Init == PageInit /\ HandlerInit /\ ClockInit /\ PanelInit /\ PipelineInit
        /\ ParserInit /\ UploadInit /\ JournalInit /\ GraphInit

Next ==
    \/ (TypeQuestion /\ UNCHANGED besidePage)
    \/ (SubmitQuery /\ UNCHANGED besidePage)
    \/ (Reply /\ UNCHANGED besidePage)

\* The chat page with several queries in flight.
Spec == Init /\ [][Next]_vars

CitationNext ==
    \/ (TypeQuestion /\ UNCHANGED besidePage)
    \/ (SubmitOneQuery /\ UNCHANGED besidePage)
    \/ (AnyReply /\ UNCHANGED besidePage)

\* The chat page with one query, answered by any reply within the bounds.
SpecCitation == Init /\ [][CitationNext]_vars

AppNext ==
    \/ (TypeQuery /\ UNCHANGED besidePanel)
    \/ (handleSubmit /\ UNCHANGED besidePanel)
    \/ (PanelReply /\ UNCHANGED besidePanel)

\* The React application's query panel.
SpecApp == Init /\ [][AppNext]_vars

PipelineNext ==
    \/ (Receive /\ UNCHANGED besidePipeline)
    \/ (Parse /\ UNCHANGED besidePipeline)
    \/ (Build /\ UNCHANGED besidePipeline)
    \/ (Execute /\ UNCHANGED besidePipeline)
    \/ (Assemble /\ UNCHANGED besidePipeline)
    \/ (Synthesize /\ UNCHANGED besidePipeline)
    \/ (Record /\ UNCHANGED besidePipeline)

ClockNext ==
    \/ (TypeQuestion /\ UNCHANGED besidePage)
    \/ (SubmitQuery /\ UNCHANGED besidePage)
    \/ (ClockReply /\ UNCHANGED besidePage)
    \/ (Tick /\ UNCHANGED besideClock)

\* The chat page with several queries in flight while time passes.
SpecClock == Init /\ [][ClockNext]_vars

StepsNext ==
    \/ (TypeWhenIdle /\ UNCHANGED besideSteps)
    \/ (SubmitWhenIdle /\ UNCHANGED besideSteps)
    \/ (StartHandler /\ UNCHANGED besideSteps)
    \/ (ShowStep /\ UNCHANGED besideSteps)
    \/ (TraceStep /\ UNCHANGED besideSteps)
    \/ (AuditStep /\ UNCHANGED besideSteps)
    \/ (ClearStep /\ UNCHANGED besideSteps)
    \/ (CatchStep /\ UNCHANGED besideSteps)

\* The chat page with the handlers of submitQuery taken step by step.
SpecSteps == Init /\ [][StepsNext]_vars

UploadNext ==
    \/ (ChooseFile /\ UNCHANGED besideForm)
    \/ (SubmitUpload /\ UNCHANGED besideForm)
    \/ (UploadResponse /\ UNCHANGED besideForm)
    \/ (UploadFinally /\ UNCHANGED besideForm)
    \/ (handleUpload /\ UNCHANGED besideAppUpload)
    \/ (AppUploadResponse /\ UNCHANGED besideAppUpload)

\* The two upload forms.
SpecUpload == Init /\ [][UploadNext]_vars

\* The upload forms when a finally handler that can run does run.
SpecUploadFair == SpecUpload /\ WF_vars(UploadFinally /\ UNCHANGED besideForm)

GraphNext ==
    \/ (handleGraphUpload /\ UNCHANGED besideAppUpload)
    \/ (AppUploadResponse /\ UNCHANGED besideAppUpload)
    \/ (GraphResponse /\ UNCHANGED besideGraph)

\* App: the fetches of /graph after mounting and after uploads.
SpecGraph == Init /\ [][GraphNext]_vars

JournalNext ==
    \/ (ClickRecord /\ UNCHANGED besideJournal)
    \/ (GetUserMediaSettles /\ UNCHANGED besideJournal)
    \/ (RecorderStops /\ UNCHANGED besideJournal)
    \/ (Second /\ UNCHANGED besideJournal)
    \/ (SaveRecording /\ UNCHANGED besideJournal)
    \/ (SaveSettles /\ UNCHANGED besideJournal)
    \/ (DiscardRecording /\ UNCHANGED besideJournal)

\* The audio recorder of the journal page.
SpecJournal == Init /\ [][JournalNext]_vars

ParserNext ==
    \/ (NextQuestion /\ UNCHANGED besideParser)
    \/ (ParseLogged /\ UNCHANGED besideParser)

\* The Semantic Parser, one question after another.
SpecParser == Init /\ [][ParserNext]_vars

\* The pipeline of one query.
SpecPipeline == Init /\ [][PipelineNext]_vars

\* The pipeline when every stage that can run does run.
SpecPipelineFair == SpecPipeline /\ WF_vars(PipelineNext)

\* ------------------------------------------------------------- properties

\* The calls of submitQuery that sent a query.
Queries == 1..(nextQuery - 1)

AuditEntriesOf(q) == {i \in DOMAIN auditTrail : auditTrail[i].q = q}

BotMessages == {i \in DOMAIN chatHistory : chatHistory[i].kind = "bot"}

\* The question of call q, as the chat shows it.
QuestionOf(q) ==
    chatHistory[CHOOSE i \in DOMAIN chatHistory :
                    chatHistory[i].kind = "user" /\ chatHistory[i].q = q].text

\* The indices k whose marker [k] is read in a text.
MarkersIn(text) ==
    {k \in DOMAIN Digits :
        \E i \in 1..(Len(text) - 2) :
            text[i] = "[" /\ text[i + 1] = Digits[k] /\ text[i + 2] = "]"}

\* The documents a context names.
ContextDocuments(context) ==
    {Trim(context[i].title) : i \in {j \in DOMAIN context : context[j].type # "text"}}

\* The documents of the 'Found in:' lines of a context.
FoundDocuments(context) ==
    {Trim(context[i].title) : i \in {j \in DOMAIN context : context[j].type = "found"}}

Used(text, title) == \E i \in DOMAIN text : MatchesAt(text, title, i)

FirstUse(text, title) ==
    CHOOSE i \in DOMAIN text :
        /\ MatchesAt(text, title, i)
        /\ \A j \in 1..(i - 1) : ~MatchesAt(text, title, j)

FirstFound(context, title) ==
    CHOOSE i \in DOMAIN context :
        /\ context[i].type = "found" /\ Trim(context[i].title) = title
        /\ \A j \in 1..(i - 1) :
               ~(context[j].type = "found" /\ Trim(context[j].title) = title)

\* C1: a query in flight has no audit entry, and a query whose fetch has
\* settled has exactly one: a resource entry for an answer, an error entry
\* for a failure.
C1_ExactlyOneAuditEntry ==
    \A q \in Queries :
        /\ q \in DOMAIN pending => AuditEntriesOf(q) = {}
        /\ q \in DOMAIN replied =>
               /\ Cardinality(AuditEntriesOf(q)) = 1
               /\ \A i \in AuditEntriesOf(q) :
                      (auditTrail[i].kind = "resource") <=> (replied[q].kind = "ok")

\* Two queries settled in the reverse of the order they were sent, the second
\* with a failure and the first with an answer.
C1_Witness ==
    /\ DOMAIN replied = {1, 2}
    /\ Len(auditTrail) = 2
    /\ auditTrail[1].q = 2 /\ auditTrail[1].kind = "error"
    /\ auditTrail[2].q = 1 /\ auditTrail[2].kind = "resource"

C4_EmptyContext ==
    \A i \in BotMessages :
        LET m == chatHistory[i]
        IN  replied[m.q].graph_context = <<>> =>
                /\ m.text = InsufficientInformation
                /\ MarkersIn(m.text) = {}
                /\ m.refs = <<>>

\* An answer for an empty context is shown.
C4_Witness ==
    \E i \in BotMessages :
        /\ replied[chatHistory[i].q].kind = "ok"
        /\ replied[chatHistory[i].q].graph_context = <<>>

\* C5: every step leaves the entries of the audit trail where they are and as
\* they are; new entries come after them.
C5_AppendOnly ==
    [][/\ Len(auditTrail') >= Len(auditTrail)
       /\ SubSeq(auditTrail', 1, Len(auditTrail)) = auditTrail]_vars

\* An audit trail with an entry of an answer followed by an entry of a failure.
C5_Witness ==
    /\ Len(auditTrail) = 2
    /\ auditTrail[1].kind = "resource"
    /\ auditTrail[2].kind = "error"

\* The outcome of each settled query of the chat page: one message, an answer
\* for an answer and an error for a failure.
PageOutcomes ==
    \A q \in DOMAIN replied :
        LET shown == {i \in DOMAIN chatHistory :
                         chatHistory[i].q = q /\ chatHistory[i].kind # "user"}
        IN  /\ Cardinality(shown) = 1
            /\ \A i \in shown :
                   IF replied[q].kind = "ok"
                   THEN chatHistory[i].kind = "bot"
                   ELSE chatHistory[i].kind = "error"
                            /\ chatHistory[i].message = replied[q].message

\* The outcome of each settled query of the QueryPanel: onQueryResult is
\* called, with a value that can be shown.
PanelOutcomes ==
    \A c \in DOMAIN panelSettled :
        /\ panelSettled[c].called
        /\ panelSettled[c].result.defined

\* C6 as claimed: every settled query has exactly one outcome, an answer or an
\* error message, at both entry points.
C6_OneOutcome == PageOutcomes /\ PanelOutcomes

C8_EmptyRejected ==
    /\ \A q \in DOMAIN pending : Trim(pending[q]) # <<>>
    /\ \A q \in DOMAIN replied : Trim(QuestionOf(q)) # <<>>
    /\ \A c \in DOMAIN panelPending : Trim(panelPending[c]) # <<>>
    /\ \A c \in DOMAIN panelSettled : Trim(panelSettled[c].question) # <<>>

C10_UniqueMarkers ==
    \A i \in BotMessages :
        LET m == chatHistory[i]
            context == replied[m.q].graph_context
        IN  /\ \A r \in DOMAIN m.refs : m.refs[r].index = r
            /\ \A j, k \in DOMAIN m.refs : j # k => m.refs[j].doc # m.refs[k].doc
            /\ {m.refs[r].doc : r \in DOMAIN m.refs} = FoundDocuments(context)

\* An answer whose context names one document in two fragments.
C10_Witness ==
    \E i \in BotMessages :
        LET m == chatHistory[i]
            context == replied[m.q].graph_context
        IN  /\ Len(context) = 2
            /\ context[1].type = "found" /\ context[2] = context[1]
            /\ Len(m.refs) = 1

\* C13: a query that failed with SynthesisUnavailable has one message in the
\* chat besides the question, the error, and no answer text or reference.
C13_NoPartialAnswer ==
    \A q \in DOMAIN replied :
        replied[q].message = "SynthesisUnavailable" =>
            LET shown == {i \in DOMAIN chatHistory :
                             chatHistory[i].q = q /\ chatHistory[i].kind # "user"}
            IN  /\ Cardinality(shown) = 1
                /\ \A i \in shown :
                       /\ chatHistory[i].kind = "error"
                       /\ chatHistory[i].message = "SynthesisUnavailable"
                       /\ chatHistory[i].text = <<>>
                       /\ chatHistory[i].refs = <<>>

\* A SynthesisUnavailable failure and an answer of another query are shown.
C13_Witness ==
    /\ \E q \in DOMAIN replied : replied[q].message = "SynthesisUnavailable"
    /\ BotMessages # {}

\* The newest answered query, by the order of sending.
LastAnswered ==
    CHOOSE q \in DOMAIN replied :
        /\ replied[q].kind = "ok"
        /\ \A p \in DOMAIN replied : replied[p].kind = "ok" => p <= q

\* What #cypherQueries holds when the replies are handled in the order the
\* queries were sent.
InOrderTrace ==
    IF \E q \in DOMAIN replied : replied[q].kind = "ok"
    THEN displayQueries(replied[LastAnswered])
    ELSE NoQueries

\* C18 as claimed: the answer, the citations and the technical trace do not
\* depend on the interleaving: every answer shown is the one of its own reply,
\* and once every query has settled the trace shown is the one the replies
\* give when handled in the order of sending.
C18_SameUnderInterleaving ==
    /\ \A i \in BotMessages :
           chatHistory[i] = BotMessage(chatHistory[i].q, replied[chatHistory[i].q])
    /\ pending = <<>> => cypherQueries = InOrderTrace

TimedOut == {i \in DOMAIN executed : executed[i].outcome = "timeout"}

\* C11: a call of the executor that timed out is the last call of its query:
\* the queries left are skipped, the stage Queried is over, the context is
\* assembled from the results that did arrive, and the query is in Failed
\* only when the synthesis failed afterwards.
C11_TimeoutSkipsRest ==
    \A i \in TimedOut :
        /\ i = Len(executed)
        /\ stage \in {"Queried", "Assembled", "Synthesized", "Recorded", "Failed"}
        /\ stage \in {"Assembled", "Synthesized", "Recorded"} =>
               contextWindow = assemble(SubSeq(executed, 1, i - 1), MaxFragments)
        /\ stage = "Failed" =>
               /\ outcome = Failed("Synthesized", "SynthesisUnavailable")
               /\ contextWindow # <<>>

\* The fallback query timed out after the targeted query had matched rows,
\* and the query was answered from those rows.
C11_Witness ==
    /\ Len(generatedQueries) = 2
    /\ TimedOut = {2}
    /\ contextWindow # <<>>
    /\ stage = "Recorded"
    /\ outcome.kind = "answer"

\* The executor times out on the targeted query and answers the fallback
\* query when it is asked.
TimeoutScenario ==
    /\ stage \notin {"Idle", "Received"}
    /\ Len(generatedQueries) = 2
    /\ executor["targeted"] = "timeout"
    /\ executor["fallback"] = "ok"

Intents == {parse(text) : text \in {t \in Questions : Trim(t) # <<>>}}

\* The fallback query is in the sequence, once, and last.
FallbackLast(queries) ==
    /\ Len(queries) >= 1
    /\ queries[Len(queries)].kind = "fallback"
    /\ \A k \in 1..(Len(queries) - 1) : queries[k].kind = "targeted"

\* C14: build returns at least one query for every intent, with the
\* fallback query last; so do the generated queries of the pipeline.
C14_FallbackLast ==
    /\ \A i \in Intents : FallbackLast(build(i))
    /\ generatedQueries # <<>> =>
           /\ generatedQueries = build(intent)
           /\ FallbackLast(generatedQueries)

\* Both a weak intent and an intent with focus and action exist, and the
\* pipeline has built a targeted query followed by the fallback query.
C14_Witness ==
    /\ \E i \in Intents : i.focus = Null
    /\ Len(generatedQueries) = 2
    /\ generatedQueries[1].kind = "targeted"

\* The context has been assembled.
IsAssembled == stage \in {"Assembled", "Synthesized", "Recorded"}

\* C15: the assembled context has at most MaxFragments fragments, in
\* descending order of score and, among equal scores, in the order of their
\* originating queries; it is empty when no query produced rows.
C15_BoundedSorted ==
    IsAssembled =>
        /\ Len(contextWindow) <= MaxFragments
        /\ \A p \in 1..(Len(contextWindow) - 1) :
               \/ contextWindow[p].score > contextWindow[p + 1].score
               \/ /\ contextWindow[p].score = contextWindow[p + 1].score
                  /\ contextWindow[p].origin <= contextWindow[p + 1].origin
        /\ (\A i \in DOMAIN executed : executed[i].rows = <<>>) => contextWindow = <<>>

\* More fragments than MaxFragments arrived, from different documents, and
\* the context holds two fragments of one score from different queries.
C15_Witness ==
    /\ IsAssembled
    /\ Cardinality({f.doc : f \in Range(Fragments(executed))}) > MaxFragments
    /\ \E p \in 1..(Len(contextWindow) - 1) :
           /\ contextWindow[p].score = contextWindow[p + 1].score
           /\ contextWindow[p].origin < contextWindow[p + 1].origin

\* The highest score among the fragments of document d.
BestScore(frags, d) ==
    CHOOSE n \in {f.score : f \in {g \in Range(frags) : g.doc = d}} :
        \A f \in Range(frags) : f.doc = d => f.score <= n

\* C16: the assembled context holds at most one fragment of a document, and
\* that fragment has the highest score of the document's fragments.
C16_Deduplicated ==
    IsAssembled =>
        /\ \A p, r \in DOMAIN contextWindow :
               contextWindow[p].doc = contextWindow[r].doc => p = r
        /\ \A p \in DOMAIN contextWindow :
               contextWindow[p].score = BestScore(Fragments(executed), contextWindow[p].doc)

\* A document came back from both queries with different scores and is in
\* the context.
C16_Witness ==
    /\ IsAssembled
    /\ \E f, g \in Range(Fragments(executed)) :
           /\ f.doc = g.doc
           /\ f.score # g.score
           /\ \E p \in DOMAIN contextWindow : contextWindow[p].doc = f.doc

\* What the page shows of audit entry i.
Rendered(i) ==
    [timestamp |-> auditTrail[i].timestamp, kind |-> auditTrail[i].kind,
     queryText |-> auditTrail[i].queryText, docs |-> auditTrail[i].docs,
     focus |-> auditTrail[i].focus, message |-> auditTrail[i].message]

\* Audit entry i holds the question and the reply of its own query.
InternallyConsistent(i) ==
    LET q == auditTrail[i].q
    IN  /\ auditTrail[i].queryText = QuestionOf(q)
        /\ IF replied[q].kind = "ok"
           THEN /\ auditTrail[i].kind = "resource"
                /\ auditTrail[i].docs = AuditDocs(replied[q].graph_context)
                /\ auditTrail[i].focus = replied[q].semantic_data
           ELSE /\ auditTrail[i].kind = "error"
                /\ auditTrail[i].message = replied[q].message

\* C17 as claimed: every audit entry is internally consistent, and no two
\* entries of the trail show the same content.
C17_ConsistentAndUnique ==
    /\ \A i \in DOMAIN auditTrail : InternallyConsistent(i)
    /\ \A i, j \in DOMAIN auditTrail : Rendered(i) = Rendered(j) => i = j

\* The answer of call q is in the chat.
Delivered(q, data) ==
    \E i \in DOMAIN chatHistory : chatHistory[i] = BotMessage(q, data)

\* C20: the answer of a query is in the chat before its audit entry is
\* written; no step, the audit write and its failure included, removes or
\* changes a message of the chat; and the answer of a query whose audit write
\* failed stays in the chat.
C20_AnswerBeforeAudit ==
    /\ [][/\ Len(auditTrail') > Len(auditTrail) /\ handler.data.kind = "ok" =>
                Delivered(handler.q, handler.data)
          /\ SubSeq(chatHistory', 1, Len(chatHistory)) = chatHistory]_vars
    /\ [](\A q \in DOMAIN replied :
              replied[q].kind = "ok" => Delivered(q, replied[q]))

\* One query has its answer and its audit entry; the audit write of another
\* one has failed, and its answer is in the chat, followed by the error.
C20_Witness ==
    /\ \E i \in DOMAIN auditTrail : auditTrail[i].kind = "resource"
    /\ \E q \in DOMAIN replied :
           /\ MatchThrows(replied[q])
           /\ Delivered(q, replied[q])
           /\ chatHistory[Len(chatHistory)] = ErrorMessage(q, MatchError)

\* C21 as claimed: in the audit trail the timestamp of an entry is never
\* smaller than the timestamp of an entry before it.
C21_OrderedByTime ==
    \A i, j \in DOMAIN auditTrail :
        i < j => auditTrail[i].timestamp <= auditTrail[j].timestamp

\* The upload failed: no response, a status that is not ok, or a body with
\* an error.
UploadFailed(reply) == ~reply.arrived \/ ~reply.ok \/ reply.error # ""

\* The message shown is an error message with the server's error text when
\* the server sent one.
ShowsError(reply, message) ==
    /\ message # <<>>
    /\ message[1] = "Error: "
    /\ reply.error # "" => message[2] = reply.error

\* C22 as claimed: every upload that was handled, by the form of the chat
\* page or by DocumentUpload, showed an error message when it had failed and
\* a success message when it had succeeded, and the form of the chat page
\* can submit again once the handlers have run.
C22_UploadOutcomeShown ==
    /\ \A u \in DOMAIN uploadSettled :
           LET reply == uploadSettled[u].reply
               shown == uploadSettled[u].shown
           IN  IF UploadFailed(reply)
               THEN shown.type = "danger" /\ ShowsError(reply, shown.message)
               ELSE shown.type = "success"
    /\ \A c \in DOMAIN appSettled :
           LET reply == appSettled[c].reply
               shown == appSettled[c].shown
           IN  IF UploadFailed(reply)
               THEN ShowsError(reply, shown)
               ELSE shown = <<"Document uploaded successfully!">>
    /\ uploads = <<>> => ~submitButton.disabled

MentionedAt(text, docs, i) == {k \in DOMAIN docs : MatchesAt(text, docs[k], i)}

\* The longest title mentioned in text at position i.
LongestAt(text, docs, i) ==
    CHOOSE k \in MentionedAt(text, docs, i) :
        \A m \in MentionedAt(text, docs, i) : Len(docs[m]) <= Len(docs[k])

\* text with every mention of a title replaced, whole, by the marker of the
\* document of that title; the text of a marker is not read again.
RECURSIVE MarkMentions(_, _, _)
MarkMentions(text, docs, i) ==
    IF i > Len(text) THEN <<>>
    ELSE IF MentionedAt(text, docs, i) = {}
         THEN <<text[i]>> \o MarkMentions(text, docs, i + 1)
         ELSE LET k == LongestAt(text, docs, i)
              IN  <<"[", Digits[k], "]">> \o MarkMentions(text, docs, i + Len(docs[k]))

\* C24 as claimed: the answer shown is the drafted answer with every mention
\* of a context document's title replaced by that document's own marker, and
\* nothing else changed.
C24_EveryMentionMarked ==
    \A i \in BotMessages :
        LET data == replied[chatHistory[i].q]
        IN  chatHistory[i].text =
                MarkMentions(data.response, CitedDocs(data.graph_context), 1)

\* C25 as claimed: every reference listed under an answer has its marker in
\* the text of that answer.
C25_OnlyUsedCited ==
    \A i \in BotMessages :
        \A r \in DOMAIN chatHistory[i].refs :
            chatHistory[i].refs[r].index \in MarkersIn(chatHistory[i].text)

\* The documents of the reference list under the answer of query q.
CitationList(q) ==
    UNION {{chatHistory[i].refs[r].doc : r \in DOMAIN chatHistory[i].refs} :
              i \in {j \in BotMessages : chatHistory[j].q = q}}

\* C26 as claimed: the documents listed in the audit entry of an answered
\* query are the documents of that answer's reference list.
C26_AuditMatchesCitations ==
    \A i \in DOMAIN auditTrail :
        auditTrail[i].kind = "resource" =>
            Range(auditTrail[i].docs) = CitationList(auditTrail[i].q)

\* The query submitted last.
LatestQuery == nextQuery - 1

\* C27 as claimed: once every query in flight has completed, the technical
\* trace shown is the one of the query submitted last, when that query was
\* answered.
C27_TraceOfLatestQuery ==
    (/\ pending = <<>>
     /\ LatestQuery \in DOMAIN replied
     /\ replied[LatestQuery].kind = "ok")
        => cypherQueries = displayQueries(replied[LatestQuery])

\* The messages of #chatHistory that answer query q or report its failure.
OutcomesOf(q) ==
    {i \in DOMAIN chatHistory :
        chatHistory[i].q = q /\ chatHistory[i].kind \in {"bot", "error"}}

QuestionsOf(q) ==
    {i \in DOMAIN chatHistory : chatHistory[i].q = q /\ chatHistory[i].kind = "user"}

QuestionFirst ==
    \A q \in Queries :
        /\ Cardinality(QuestionsOf(q)) = 1
        /\ Cardinality(OutcomesOf(q)) <= 1
        /\ \A i \in OutcomesOf(q) : \E j \in QuestionsOf(q) : j < i

AppendOnly ==
    /\ Len(chatHistory') >= Len(chatHistory)
    /\ SubSeq(chatHistory', 1, Len(chatHistory)) = chatHistory

Settles == DOMAIN replied' # DOMAIN replied

\* C29 as claimed: handling the reply of a query leaves the text of the input
\* as it is; only submitting clears it.
C29_ReplyKeepsInput == [][Settles => queryInput' = queryInput]_vars

\* The button is disabled exactly while an upload of the form is in flight,
\* and no two are.
DisabledWhileInFlight ==
    /\ submitButton.disabled <=> InFlight # {}
    /\ Cardinality(InFlight) <= 1

\* The then or the catch handler of some upload has run: its outcome is shown.
OutcomeHandled == \E u \in InFlight : uploads[u].phase = "finally"

\* C30: the submit button of the upload form is disabled exactly while an
\* upload is in flight, at most one upload of the form is in flight, and after
\* the outcome of an upload, whatever it is, the button is enabled again.
C30_ButtonFollowsUpload ==
    /\ []DisabledWhileInFlight
    /\ (OutcomeHandled ~> ~submitButton.disabled)

\* A second upload in flight, the button disabled, after a first whose fetch
\* was rejected.
C30_Witness ==
    /\ 1 \in DOMAIN uploadSettled
    /\ ~uploadSettled[1].reply.arrived
    /\ 2 \in InFlight
    /\ uploads[2].phase = "fetch"
    /\ submitButton.disabled

\* The success and the error display of the upload form.
TerminalStatus ==
    \/ /\ statusContainer.type = "success"
       /\ progressBar = updateProgress(100, "Complete")
    \/ /\ statusContainer.type = "danger"
       /\ progressBar = updateProgress(0, "Error")

\* C31 as claimed: once the response of an upload has been handled, the form
\* shows success with progress 100 or an error with progress 0, whatever the
\* body of the response holds.
C31_TerminalStatus == OutcomeHandled => TerminalStatus

\* The media recorders that are recording.
Recording == {r \in DOMAIN recorders : recorders[r] = "recording"}

\* C32 as claimed: whatever the clicks on the record button, at most one
\* media recorder records and at most one timer runs, and a timer runs only
\* while its recorder records.
C32_OneRecording ==
    /\ Cardinality(Recording) <= 1
    /\ Cardinality(timers) <= 1
    /\ timers \subseteq Recording

\* C33 as claimed: every click on Save Recording sent the chunks of the
\* recording that the preview showed at that moment.
C33_SavedIsPreviewed ==
    \A i \in DOMAIN saves : saves[i].sent = saves[i].shown

\* The uploads of DocumentUpload that were answered with an ok status.
UploadedOk ==
    {c \in DOMAIN appSettled : appSettled[c].reply.arrived /\ appSettled[c].reply.ok}

\* The fetch of /graph issued last.
LatestFetch == nextFetch - 1

\* C34 as claimed: every successful upload was followed by a fetch of the
\* graph, and once no fetch is in flight the graph drawn is the one
\* returned to the fetch issued last, when that fetch returned one.
C34_LatestGraphShown ==
    /\ nextFetch = 2 + Cardinality(UploadedOk)
    /\ (/\ graphFetches = <<>>
        /\ LatestFetch \in DOMAIN graphSettled
        /\ graphSettled[LatestFetch].ok)
           => svg = graphSettled[LatestFetch].data

====
